---- MODULE Spec2Model ----
(***************************************************************************)
(* Model of the client-side room session manager of flona_v1:              *)
(*   src/app/components/Chat/ChatRoom.tsx   (component ChatRoom)           *)
(*   src/unnamed/part_002                   (GET/POST /api/messages)       *)
(* One ChatRoom instance whose refs and React state persist while its      *)
(* effects are cleaned up and run again (unmount/remount of the effects,   *)
(* re-run of the [session] effect).  Every await of the source is a        *)
(* suspension point; the code between two awaits is one atomic step.       *)
(* A continuation queued by a settled connection promise is a microtask:   *)
(* it runs before any other event (see Quiet).                             *)
(***************************************************************************)
EXTENDS Integers, Sequences, FiniteSets, TLC

\* ------------------------------------------------------------------ bounds
\* setupChat invocations that pass both guards (each may create one client)
MaxTasks == 3
\* the same, in the specifications that add message traffic or sends
MaxMsgTasks == 2
MaxSendTasks == 1
\* sendMessage invocations
MaxSends == 1
\* message identities 1..MaxMsg; the store numbers messages in creation order
MaxMsg == 1
\* handlers of one identity suspended in a name lookup at the same time
MaxInFlight == 1
\* onTyping calls of the input component
MaxTypingCalls == 3
\* typing-changed handlers running at the same time
MaxTypingHandlers == 2
\* length of the identifiers whose names are generated
MaxIdLen == 3
\* message identities where the order of the list is examined
MaxOrderMsg == 3
\* messages in the store where the history load is examined (above `take`)
MaxStore == 101
\* presence queries of the presence handler in flight at the same time
MaxPresenceQueries == 2
\* `take: 100` of GET /api/messages
HistoryLimit == 100

Tasks == 1..MaxTasks
\* A transport client is created by at most one setupChat invocation: the
\* client created by invocation t is client t.  0 stands for null.
Clients == Tasks
NoClient == 0

VARIABLES
  mounted,              \* the surface's effects are set up (between mount and cleanup)
  session,              \* session?.user is present
  isInitializedRef,     \* ChatRoom.tsx:53
  realtimeClientRef,    \* ChatRoom.tsx:48   (client id or NoClient)
  chatClientRef,        \* ChatRoom.tsx:49   (client id it was built on, or NoClient)
  currentRoomRef,       \* ChatRoom.tsx:50   (TRUE: holds the room handle)
  connectionPromiseRef, \* ChatRoom.tsx:54   (client whose promise it holds, or NoClient)
  subscriptionsRef,     \* ChatRoom.tsx:51   (sequence of the event classes subscribed)
  connState,            \* connection.state of every client ("none": not created)
  promise,              \* state of the connection promise created for a client
  roomStatus,           \* attach state of the 'campus-global' room object
  liveSubs,             \* transport side: live subscriptions per event class
  room,                 \* React state `room` (TRUE: a handle is exposed to the UI)
  tasks,                \* the setupChat invocations: position and closure variables
  sinceStart,           \* history: "clean" from the start of an activation until the
                        \* next failure or teardown
  messages,             \* React state `messages` :41 (sequence of [id, userName])
  messageIdsRef,        \* ChatRoom.tsx:52  the dedup set
  flonaNameCacheRef,    \* ChatRoom.tsx:55  (account id -> display name, or NoName)
  lookups,              \* message handlers suspended in getFlonaName (:301), per id
  persisted,            \* the message store holds the messages 1..persisted
  sends,                \* the sendMessage invocations
  text,                 \* MessageInput state `text` (part_003:11)
  isTypingRef,          \* part_003:13
  typingTimeoutRef,     \* part_003:12  ("null", "armed": holds a running timer,
                        \* "dead": holds a timer that has fired or was cleared)
  timers,               \* the inactivity timers (part_003:66) that are running
  typingCalls,          \* the onTyping(isTyping) calls made so far, in order
  typingUsers,          \* React state `typingUsers` :44 (set of display names)
  typingHandlers,       \* the typing-changed handlers (:324-340) that are running
  lastTyping,           \* history: the accounts other than the local user in
                        \* currentlyTyping of the last typing-changed event delivered
  nameInput,            \* the identifier (char codes) last given to the generators
  clientName,           \* generateAnonymousName(nameInput)
  serverName,           \* generateFlonaName(nameInput)
  present,              \* transport side: the members present in the room
  onlineUsers,          \* React state `onlineUsers` :43
  presenceQueries,      \* presence.get() calls of the presence handler (:346) in flight
  replacedUsers,        \* history: `onlineUsers` before the last setOnlineUsers call
  users,                \* the User table: per email, whether a row exists and its flona_name
  signInPending,        \* signIn calls suspended in `prisma.user.update` (rules.md:1330)
  signInResult,         \* per email, what the last completed signIn call returned
  redelivered,          \* history: the repeated deliveries, as [id, during] records
  currentUserFlonaName, \* React state `currentUserFlonaName` :45
  closureName,          \* `currentUserFlonaName` in the closure of each setupChat invocation
  enteredName           \* history: the name of the last presence.enter call (:359-361)

lifeVars == <<mounted, session, isInitializedRef, realtimeClientRef, chatClientRef,
              currentRoomRef, connectionPromiseRef, subscriptionsRef, connState,
              promise, roomStatus, liveSubs, room, tasks, sinceStart>>

msgVars == <<messages, messageIdsRef, flonaNameCacheRef, lookups, persisted>>

sendVars == <<sends>>
inputVars == <<text, isTypingRef, typingTimeoutRef, timers, typingCalls>>
typingVars == <<typingUsers, typingHandlers, lastTyping>>
nameVars == <<nameInput, clientName, serverName>>
\* what the steps of sendMessage leave alone besides lifeVars and msgVars
presenceVars == <<present, onlineUsers, presenceQueries, replacedUsers>>
authVars == <<users, signInPending, signInResult>>
dedupVars == <<redelivered>>
selfVars == <<currentUserFlonaName, closureName, enteredName>>
uiVars == <<inputVars, typingVars, nameVars, presenceVars, authVars, dedupVars, selfVars>>
\* uiVars without selfVars
uiOtherVars == <<inputVars, typingVars, nameVars, presenceVars, authVars, dedupVars>>
\* what the session manager's own steps leave alone
otherVars == <<sendVars, uiVars>>

vars == <<lifeVars, msgVars, sendVars, uiVars>>

MsgIds == 1..MaxMsg
OrderIds == 1..MaxOrderMsg
AllMsgIds == MsgIds \cup OrderIds
\* the account (email) that wrote a message
Author(m) == IF m % 2 = 1 THEN "alice" ELSE "bob"

\* the accounts of the model; LocalUser is session.user.email of this client
Accounts == {"alice", "bob"}
LocalUser == "alice"

\* ------------------------------------------------- generated display names
\* Signed 32-bit integers are the integers MinInt32..MaxInt32.  The checker's
\* own integers have that range too, so every intermediate result that can
\* leave it is computed on the two 16-bit halves of its two's-complement form.
Half == 65536
MinInt32 == -2147483647 - 1
MaxInt32 == 2147483647
Hi(x) == (x \div Half) % Half
Lo(x) == x % Half
\* ToInt32 of the number whose halves (not yet reduced) are hi and lo
ToInt32(hi, lo) ==
  LET l == lo % Half
      h == (hi + (lo \div Half)) % Half
  IN  IF h >= Half \div 2 THEN (h - Half) * Half + l ELSE h * Half + l

\* (variant: a shift by 4 bits)
ShiftLeft5_By4(x) == ToInt32(Hi(x) * 16, Lo(x) * 16)
\* `hash << 5` :29  (the result is an Int32)
ShiftLeft5(x) == ToInt32(Hi(x) * 32, Lo(x) * 32)

\* `hash = ((hash << 5) - hash) + char; hash = hash & hash` :29-30.  The
\* subtraction and the addition are exact (the operands are below 2^33) and
\* `hash & hash` is ToInt32 of their result.
HashStep(hash, char) ==
  LET s == ShiftLeft5(hash)
  IN  ToInt32(Hi(s) - Hi(hash), Lo(s) - Lo(hash) + char)

\* the loop :26-31 over the char codes of the identifier
RECURSIVE HashOf(_)
HashOf(codes) ==
  IF Len(codes) = 0 THEN 0
  ELSE HashStep(HashOf(SubSeq(codes, 1, Len(codes) - 1)), codes[Len(codes)])

\* `Math.abs(x) % n` :33-34.  Math.abs is exact (2^31 for MinInt32) and the
\* JavaScript remainder of a non-negative number is the mathematical one;
\* |x| is taken as (-(x + 1)) + 1 to stay inside the 32-bit range.
MathAbsMod(x, n) ==
  IF x >= 0 THEN x % n ELSE (((-(x + 1)) % n) + 1) % n

\* `hash >> 8` :34  (sign-propagating shift: the floor of hash / 256)
ShiftRight8(x) == x \div 256

\* ['Happy', ...] :22 and ['Panda', ...] :23, as their lengths; a generated
\* name "Adjective Animal" is the pair of its two (0-based) indexes
NumAdjectives == 10
NumAnimals == 10
GeneratedName(adj, anim) == [kind |-> "generated", adj |-> adj, anim |-> anim]

\* generateAnonymousName(email) :21-37, on the char codes of email
generateAnonymousName(codes) ==
  LET hash == HashOf(codes)
  IN  GeneratedName(MathAbsMod(hash, NumAdjectives),
                    MathAbsMod(ShiftRight8(hash), NumAnimals))

\* the server's copy (lib/auth, as listed in rules.md:1233-1249)
ServerShiftLeft5(x) == ToInt32(Hi(x) * 32, Lo(x) * 32)
ServerHashStep(hash, char) ==
  LET s == ServerShiftLeft5(hash)
  IN  ToInt32(Hi(s) - Hi(hash), Lo(s) - Lo(hash) + char)
RECURSIVE ServerHashOf(_)
ServerHashOf(codes) ==
  IF Len(codes) = 0 THEN 0
  ELSE ServerHashStep(ServerHashOf(SubSeq(codes, 1, Len(codes) - 1)), codes[Len(codes)])
generateFlonaName(codes) ==
  LET hash == ServerHashOf(codes)
  IN  GeneratedName(MathAbsMod(hash, NumAdjectives),
                    MathAbsMod(ShiftRight8(hash), NumAnimals))

\* charCodeAt over the account identifiers of the model
CharCodes(e) ==
  CASE e = "alice" -> <<97, 108, 105, 99, 101>>
    [] e = "bob"   -> <<98, 111, 98>>

\* display names: the name registered in the identity store (user.flona_name)
\* and the absent value
RegisteredName(e) == [kind |-> "registered", of |-> e]
NoName == [kind |-> "none"]
\* useState<string>('Anonymous') :45
Anonymous == [kind |-> "placeholder"]

\* --------------------------------------------------------------- sign-in
\* String.prototype.toLowerCase over the code units of the model (ASCII)
ToLowerCase(codes) ==
  [i \in DOMAIN codes |-> IF codes[i] \in 65..90 THEN codes[i] + 32 ELSE codes[i]]
\* String.prototype.endsWith
EndsWith(codes, suffix) ==
  /\ Len(codes) >= Len(suffix)
  /\ SubSeq(codes, Len(codes) - Len(suffix) + 1, Len(codes)) = suffix
\* process.env.ALLOWED_EMAIL_DOMAIN (rules.md:1274), here "x.y"
ALLOWED_DOMAIN == <<120, 46, 121>>
\* `emailLower.endsWith(`@${ALLOWED_DOMAIN}`)` rules.md:1301-1302
DomainCheck(email) == EndsWith(ToLowerCase(email), <<64>> \o ALLOWED_DOMAIN)

\* user.email of the accounts that sign in: none (null or ''), "a@x.y" and
\* "u@x.y" (their generated names are equal), "A@X.Y", and "a@x.z"
NoEmail == <<>>
SignInEmails ==
  {NoEmail,
   <<97, 64, 120, 46, 121>>, <<117, 64, 120, 46, 121>>,
   <<65, 64, 88, 46, 89>>, <<97, 64, 120, 46, 122>>}
\* a row of the User table; flona_name is NoName for null
NoUser == [exists |-> FALSE, flona_name |-> NoName]
UserRow(name) == [exists |-> TRUE, flona_name |-> name]
\* `"flona_name" TEXT UNIQUE` (part_000:9): another row holds that name
NameTaken(name, email) ==
  \E other \in SignInEmails \ {email} :
     users[other].exists /\ users[other].flona_name = name

SendIds == 1..MaxSends
\* persist: outcome of the POST /api/messages request ("none": not settled);
\* published: room.messages.send has been called; alerted: alert(...) shown;
\* msg: the identity the store gave the message (0: none); echo: the live
\* delivery of the published message to this client ("none", "inflight", "done")
IdleSend == [pc |-> "idle", persist |-> "none", published |-> FALSE, alerted |-> FALSE,
             msg |-> 0, echo |-> "none"]

\* A typing-changed handler (:324-340): todo, the identifiers still to be
\* resolved (it waits for the lookup of the first); names, `flonaNames`;
\* hadLocal, whether typingEvent.currentlyTyping held the local user
IdleHandler == [pc |-> "idle", todo |-> <<>>, names |-> {}, hadLocal |-> FALSE]

\* the values of the input field: empty, blank, a message text
Texts == {"", " ", "a"}
\* text.trim()
Trim(t) == IF t = " " THEN "" ELSE t

EventClasses == <<"message", "reaction", "typing", "presence">>
ClassSet == {EventClasses[i] : i \in 1..Len(EventClasses)}

IdleTask == [pc |-> "idle", isMounted |-> FALSE, realtimeClient |-> NoClient, awaits |-> NoClient]
\* the invocation has ended (`return` at :225 or :254, catch block :366-372,
\* or end of the function :365): its closure variables are dead
DoneTask == [IdleTask EXCEPT !.pc = "done"]

\* the state after construction, the store holding one of `sizes` messages
InitStore(sizes) ==
  /\ mounted = FALSE
  /\ session \in BOOLEAN
  /\ isInitializedRef = FALSE
  /\ realtimeClientRef = NoClient
  /\ chatClientRef = NoClient
  /\ currentRoomRef = FALSE
  /\ connectionPromiseRef = NoClient
  /\ subscriptionsRef = <<>>
  /\ connState = [c \in Clients |-> "none"]
  /\ promise = [c \in Clients |-> "none"]
  /\ roomStatus = "initialized"
  /\ liveSubs = [k \in ClassSet |-> 0]
  /\ room = FALSE
  /\ tasks = [t \in Tasks |-> IdleTask]
  /\ sinceStart = "none"
  /\ messages = <<>>
  /\ messageIdsRef = {}
  /\ flonaNameCacheRef = [e \in Accounts |-> NoName]
  /\ lookups = [m \in AllMsgIds |-> 0]
  /\ persisted \in sizes
  /\ sends = [s \in SendIds |-> IdleSend]
  /\ text = ""
  /\ isTypingRef = FALSE
  /\ typingTimeoutRef = "null"
  /\ timers = 0
  /\ typingCalls = <<>>
  /\ typingUsers = {}
  /\ typingHandlers = [h \in 1..MaxTypingHandlers |-> IdleHandler]
  /\ lastTyping = {}
  /\ nameInput = <<>>
  /\ clientName = generateAnonymousName(<<>>)
  /\ serverName = generateFlonaName(<<>>)
  /\ present = {}
  /\ onlineUsers = {}
  /\ presenceQueries = 0
  /\ replacedUsers = {}
  /\ users = [e \in SignInEmails |-> NoUser]
  /\ signInPending = {}
  /\ signInResult = [e \in SignInEmails |-> "none"]
  /\ redelivered = {}
  /\ currentUserFlonaName = Anonymous
  /\ closureName = [t \in Tasks |-> NoName]
  /\ enteredName = NoName

Init == InitStore(0..MaxMsg)

\* ---------------------------------------------------------------- helpers
NumStarted == Cardinality({t \in Tasks : tasks[t].pc # "idle"})
NumClients == Cardinality({c \in Clients : connState[c] # "none"})
NumWaits == Cardinality({c \in Clients : promise[c] # "none"})

\* A continuation of a settled connection promise is queued as a microtask.
MicroPcs == {"resumeConn", "throwConn"}
Quiet == \A t \in Tasks : tasks[t].pc \notin MicroPcs

\* isMounted = false in every closure of the [session] effect created so far
\* (cleanup function :377-381; only the latest closure can still be true)
CleanupClosures == [t \in Tasks |-> [tasks[t] EXCEPT !.isMounted = FALSE]]

\* (variant: a catch block that leaves the flag as it is)
FlagAfterCatch_Kept == isInitializedRef
\* :371  the catch block resets the flag
FlagAfterCatch == FALSE

\* catch block :366-372 reached by invocation t (base: tasks before the step)
Catch(base, t) ==
  /\ isInitializedRef' = FlagAfterCatch
  /\ tasks' = [base EXCEPT ![t] = DoneTask]
  /\ sinceStart' = "disturbed"

\* (variant: no guard on the flag)
SkipsSetup_NoFlag == FALSE
\* :165  "prevent duplicate initialization" (isMounted is true in a fresh closure)
SkipsSetup == isInitializedRef

\* (variant: a client is created on every activation)
NeedsNewClient_Always(rc) == TRUE
\* :183  "create a new client unless the existing one is connected"
NeedsNewClient(rc) == rc = NoClient \/ connState[rc] # "connected"

\* :225-262 from the isMounted check to the next await, for invocation t
\* whose local realtimeClient is rc
AfterConnection(base, t, rc, stillMounted) ==
  IF ~stillMounted
  THEN /\ tasks' = [base EXCEPT ![t] = DoneTask]
       /\ UNCHANGED <<chatClientRef, room>>
  ELSE /\ chatClientRef' = IF chatClientRef = NoClient THEN rc ELSE chatClientRef
       /\ IF ~currentRoomRef
          THEN /\ tasks' = [base EXCEPT ![t] =
                     [pc |-> "awaitRoomGet", isMounted |-> TRUE,
                      realtimeClient |-> NoClient, awaits |-> NoClient]]
               /\ UNCHANGED room
          ELSE \* "Reusing existing room": no attach, :254 passes, setRoom(:257)
               /\ room' = currentRoomRef
               /\ tasks' = [base EXCEPT ![t] =
                     [pc |-> "awaitHistory", isMounted |-> TRUE,
                      realtimeClient |-> NoClient, awaits |-> NoClient]]

\* setupChat() :163-223 called with a fresh closure (isMounted = true), up to
\* its first await.  base: tasks after the cleanup of the previous closure;
\* cap: the bound on the invocations that pass both guards.
SetupChat(base, sess, cap) ==
  IF SkipsSetup \/ ~sess
  THEN \* :165-173 skip
       /\ tasks' = base
       /\ UNCHANGED <<isInitializedRef, realtimeClientRef, chatClientRef,
                      connectionPromiseRef, connState, promise, room, sinceStart>>
  ELSE LET t == NumStarted + 1 IN
       /\ t \in Tasks /\ t <= cap
       /\ isInitializedRef' = TRUE
       /\ sinceStart' = "clean"
       /\ IF NeedsNewClient(realtimeClientRef)
          THEN LET waitOn == IF connectionPromiseRef = NoClient THEN t
                             ELSE connectionPromiseRef IN
               /\ connState' = [connState EXCEPT ![t] = "connecting"]
               /\ realtimeClientRef' = t
               /\ promise' = IF connectionPromiseRef = NoClient
                             THEN [promise EXCEPT ![t] = "pending"] ELSE promise
               /\ connectionPromiseRef' = waitOn
               /\ tasks' = [base EXCEPT ![t] =
                     [pc |-> "awaitConn", isMounted |-> TRUE,
                      realtimeClient |-> t, awaits |-> waitOn]]
               /\ UNCHANGED <<chatClientRef, room>>
          ELSE /\ AfterConnection(base, t, realtimeClientRef, TRUE)
               /\ UNCHANGED <<realtimeClientRef, connectionPromiseRef, connState, promise>>

\* The effect :147-158 runs with session `sess`, whose user carries its
\* flonaName (the session callback copies it from the token, rules.md:1365):
\* setCurrentUserFlonaName(session.user.flonaName) :149-150.  The new value is
\* what later renders see; the closures of this render keep the old one.
LoadCurrentUserFlonaName(sess) ==
  currentUserFlonaName' = IF sess THEN RegisteredName(LocalUser) ELSE currentUserFlonaName

\* the closure of the setupChat invocation started by this step, if any,
\* holds the currentUserFlonaName of the render the effect belongs to
CaptureName ==
  closureName' = IF NumStarted' > NumStarted
                 THEN [closureName EXCEPT ![NumStarted + 1] = currentUserFlonaName]
                 ELSE closureName

\* ---------------------------------------------------------------- actions
\* The effects run (mount): useEffect :160-382 calls setupChat
Mount(cap) ==
  /\ Quiet
  /\ ~mounted
  /\ mounted' = TRUE
  /\ SetupChat(tasks, session, cap)
  /\ LoadCurrentUserFlonaName(session)
  /\ CaptureName
  /\ UNCHANGED <<session, currentRoomRef, subscriptionsRef, roomStatus, liveSubs>>
  /\ UNCHANGED <<msgVars, sendVars, uiOtherVars, enteredName>>

\* useSession yields a new session object: the [session] effect is cleaned up
\* (:377-381) and run again (:160-375)
SessionChange(sess, cap) ==
  /\ Quiet
  /\ mounted
  /\ session' = sess
  /\ SetupChat(CleanupClosures, sess, cap)
  /\ LoadCurrentUserFlonaName(sess)
  /\ CaptureName
  /\ UNCHANGED <<mounted, currentRoomRef, subscriptionsRef, roomStatus, liveSubs>>
  /\ UNCHANGED <<msgVars, sendVars, uiOtherVars, enteredName>>

\* every subscription in the list is cancelled (:389-396)
Unsubscribed == [k \in ClassSet |->
   liveSubs[k] - Cardinality({i \in 1..Len(subscriptionsRef) : subscriptionsRef[i] = k})]

\* Surface teardown: cleanup of the [session] effect (:377-381) and of the
\* unmount effect (:386-414)
Teardown ==
  /\ Quiet
  /\ mounted
  /\ mounted' = FALSE
  /\ tasks' = CleanupClosures
  /\ liveSubs' = Unsubscribed
  /\ subscriptionsRef' = <<>>
  /\ roomStatus' = IF currentRoomRef THEN "detached" ELSE roomStatus
  /\ currentRoomRef' = FALSE
  /\ isInitializedRef' = FALSE
  /\ sinceStart' = "disturbed"
  /\ messageIdsRef' = {}
  /\ UNCHANGED <<session, realtimeClientRef, chatClientRef, connectionPromiseRef,
                 connState, promise, room>>
  /\ UNCHANGED <<messages, flonaNameCacheRef, lookups, persisted, otherVars>>

\* tasks awaiting the promise of client c are queued with outcome pc
Settle(c, pc) == [t \in Tasks |->
   IF tasks[t].pc = "awaitConn" /\ tasks[t].awaits = c
   THEN [tasks[t] EXCEPT !.pc = pc] ELSE tasks[t]]

\* transport: client c reaches 'connected'; listener :203-208
ClientConnected(c) ==
  /\ Quiet
  /\ connState[c] = "connecting"
  /\ connState' = [connState EXCEPT ![c] = "connected"]
  /\ IF promise[c] = "none"
     THEN UNCHANGED <<connectionPromiseRef, promise, tasks>>
     ELSE /\ connectionPromiseRef' = NoClient
          /\ promise' = IF promise[c] = "pending"
                        THEN [promise EXCEPT ![c] = "resolved"] ELSE promise
          /\ tasks' = IF promise[c] = "pending" THEN Settle(c, "resumeConn") ELSE tasks
  /\ UNCHANGED <<mounted, session, isInitializedRef, realtimeClientRef, chatClientRef,
                 currentRoomRef, subscriptionsRef, roomStatus, liveSubs, room, sinceStart>>
  /\ UNCHANGED <<msgVars, otherVars>>

\* transport: client c reaches 'failed'; listener :210-216
ClientFailed(c) ==
  /\ Quiet
  /\ connState[c] = "connecting"
  /\ connState' = [connState EXCEPT ![c] = "failed"]
  /\ IF promise[c] = "none"
     THEN UNCHANGED <<connectionPromiseRef, promise, tasks>>
     ELSE /\ connectionPromiseRef' = NoClient
          /\ promise' = IF promise[c] = "pending"
                        THEN [promise EXCEPT ![c] = "rejected"] ELSE promise
          /\ tasks' = IF promise[c] = "pending" THEN Settle(c, "throwConn") ELSE tasks
  /\ UNCHANGED <<mounted, session, isInitializedRef, realtimeClientRef, chatClientRef,
                 currentRoomRef, subscriptionsRef, roomStatus, liveSubs, room, sinceStart>>
  /\ UNCHANGED <<msgVars, otherVars>>

\* the 15 s timer of the promise of client c fires (:197-201); the timer is
\* armed exactly while that promise is pending
ConnectTimeout(c) ==
  /\ Quiet
  /\ promise[c] = "pending"
  /\ connectionPromiseRef' = NoClient
  /\ promise' = [promise EXCEPT ![c] = "rejected"]
  /\ tasks' = Settle(c, "throwConn")
  /\ UNCHANGED <<mounted, session, isInitializedRef, realtimeClientRef, chatClientRef,
                 currentRoomRef, subscriptionsRef, connState, roomStatus, liveSubs,
                 room, sinceStart>>
  /\ UNCHANGED <<msgVars, otherVars>>

\* microtasks run in the order in which the awaits were registered
FirstMicro == CHOOSE t \in Tasks :
   tasks[t].pc \in MicroPcs /\ \A u \in Tasks : tasks[u].pc \in MicroPcs => t <= u

\* `await connectionPromiseRef.current` (:220) returns; :225-262
ResumeAfterConnect ==
  /\ ~Quiet
  /\ LET t == FirstMicro IN
     /\ tasks[t].pc = "resumeConn"
     /\ AfterConnection(tasks, t, tasks[t].realtimeClient, tasks[t].isMounted)
  /\ UNCHANGED <<mounted, session, isInitializedRef, realtimeClientRef, currentRoomRef,
                 connectionPromiseRef, subscriptionsRef, connState, promise, roomStatus,
                 liveSubs, sinceStart>>
  /\ UNCHANGED <<msgVars, otherVars>>

\* `await connectionPromiseRef.current` (:220) throws; catch :366-372
ThrowAfterConnect ==
  /\ ~Quiet
  /\ LET t == FirstMicro IN
     /\ tasks[t].pc = "throwConn"
     /\ Catch(tasks, t)
  /\ UNCHANGED <<mounted, session, realtimeClientRef, chatClientRef, currentRoomRef,
                 connectionPromiseRef, subscriptionsRef, connState, promise, roomStatus,
                 liveSubs, room>>
  /\ UNCHANGED <<msgVars, otherVars>>

\* ------------------------------------------------ setupChat, later awaits
Awaiting(t, pc) == Quiet /\ tasks[t].pc = pc

\* `await chatClientRef.current.rooms.get(...)` (:238) settles; :242-248
RoomGetDone(t, ok) ==
  /\ Awaiting(t, "awaitRoomGet")
  /\ IF ok
     THEN /\ currentRoomRef' = TRUE
          /\ tasks' = [tasks EXCEPT ![t].pc = "awaitAttach"]
          /\ UNCHANGED <<isInitializedRef, sinceStart>>
     ELSE /\ Catch(tasks, t)
          /\ UNCHANGED currentRoomRef
  /\ UNCHANGED <<mounted, session, realtimeClientRef, chatClientRef, connectionPromiseRef,
                 subscriptionsRef, connState, promise, roomStatus, liveSubs, room>>
  /\ UNCHANGED <<msgVars, otherVars>>

\* `await currentRoomRef.current.attach()` (:248) settles; :249-262.
\* The transport attaches a room only over a connected client (the one the
\* chat client was built on, :229), and it serialises attach and detach: a
\* detach requested while the attach was in progress takes effect after it.
AttachDone(t, ok) ==
  /\ Awaiting(t, "awaitAttach")
  /\ ok => connState[chatClientRef] = "connected"
  /\ IF ok
     THEN /\ roomStatus' = IF roomStatus = "detached" THEN "detached" ELSE "attached"
          /\ IF ~tasks[t].isMounted
             THEN /\ tasks' = [tasks EXCEPT ![t] = DoneTask]
                  /\ UNCHANGED room
             ELSE /\ room' = currentRoomRef
                  /\ tasks' = [tasks EXCEPT ![t].pc = "awaitHistory"]
          /\ UNCHANGED <<isInitializedRef, sinceStart>>
     ELSE /\ roomStatus' = IF roomStatus = "detached" THEN "detached" ELSE "failed"
          /\ Catch(tasks, t)
          /\ UNCHANGED room
  /\ UNCHANGED <<mounted, session, realtimeClientRef, chatClientRef, currentRoomRef,
                 connectionPromiseRef, subscriptionsRef, connState, promise, liveSubs>>
  /\ UNCHANGED <<msgVars, otherVars>>

Min(a, b) == IF a < b THEN a ELSE b
\* GET /api/messages: orderBy created_at asc, take HistoryLimit
\* `userName: msg.user.flona_name || msg.user_name` (part_002:26)
HistoryName(e) == RegisteredName(e)
HistoryResult == [i \in 1..Min(persisted, HistoryLimit) |->
                     [id |-> i, userName |-> HistoryName(Author(i))]]
SeqIds(list) == {list[i].id : i \in 1..Len(list)}
\* :271-276  the cache after the names of the loaded messages are stored
CacheAfterHistory(list) == [e \in Accounts |->
   IF \E i \in 1..Len(list) : Author(list[i].id) = e
   THEN HistoryName(e) ELSE flonaNameCacheRef[e]]

\* (variant: subscriptions set up by every activation)
ShouldSubscribe_Always == TRUE
\* :285  "only set up subscriptions once per room"
ShouldSubscribe == Len(subscriptionsRef) = 0

\* (variant: the failure reaches the catch block of setupChat)
HistoryFailureCaught_Rethrown == FALSE
\* :265-282  a failed history load is caught (try/catch around the fetch; a
\* non-success status skips the block :267-279)
HistoryFailureCaught == TRUE

\* `await fetch('/api/messages')` (:266) settles (ok: response.ok with its
\* list; otherwise a non-success status or a thrown error); :267-359
HistoryDone(t, ok) ==
  /\ Awaiting(t, "awaitHistory")
  /\ IF ok
     THEN /\ messages' = HistoryResult
          /\ messageIdsRef' = messageIdsRef \cup SeqIds(HistoryResult)
          /\ flonaNameCacheRef' = CacheAfterHistory(HistoryResult)
     ELSE UNCHANGED <<messages, messageIdsRef, flonaNameCacheRef>>
  /\ IF ~currentRoomRef \/ (~ok /\ ~HistoryFailureCaught)
     THEN \* currentRoomRef.current is null: TypeError at :289 or :359
          /\ Catch(tasks, t)
          /\ UNCHANGED <<subscriptionsRef, liveSubs, enteredName>>
     ELSE /\ IF ShouldSubscribe
             THEN /\ subscriptionsRef' = subscriptionsRef \o EventClasses
                  /\ liveSubs' = [k \in ClassSet |-> liveSubs[k] + 1]
             ELSE UNCHANGED <<subscriptionsRef, liveSubs>>
          /\ enteredName' = closureName[t]
          /\ tasks' = [tasks EXCEPT ![t].pc = "awaitEnter"]
          /\ UNCHANGED <<isInitializedRef, sinceStart>>
  /\ UNCHANGED <<mounted, session, realtimeClientRef, chatClientRef, currentRoomRef,
                 connectionPromiseRef, connState, promise, roomStatus, room>>
  /\ UNCHANGED <<lookups, persisted, sendVars, uiOtherVars>>
  /\ UNCHANGED <<currentUserFlonaName, closureName>>

\* `await currentRoomRef.current.presence.enter(...)` (:359) settles; :364
EnterDone(t, ok) ==
  /\ Awaiting(t, "awaitEnter")
  /\ IF ok /\ currentRoomRef
     THEN /\ tasks' = [tasks EXCEPT ![t].pc = "awaitPresenceGet"]
          /\ UNCHANGED <<isInitializedRef, sinceStart>>
     ELSE Catch(tasks, t)
  /\ UNCHANGED <<mounted, session, realtimeClientRef, chatClientRef, currentRoomRef,
                 connectionPromiseRef, subscriptionsRef, connState, promise, roomStatus,
                 liveSubs, room>>
  /\ UNCHANGED <<msgVars, otherVars>>

\* (variant: the members are added to the set)
setOnlineUsers_Merge(members) ==
  /\ onlineUsers' = onlineUsers \cup members
  /\ replacedUsers' = onlineUsers
\* setOnlineUsers(members) :347, :365
setOnlineUsers(members) ==
  /\ onlineUsers' = members
  /\ replacedUsers' = onlineUsers

\* `await currentRoomRef.current.presence.get()` (:364) settles with the
\* members present at that moment; :365
PresenceGetDone(t, ok) ==
  /\ Awaiting(t, "awaitPresenceGet")
  /\ IF ok
     THEN /\ tasks' = [tasks EXCEPT ![t] = DoneTask]
          /\ setOnlineUsers(present)
          /\ UNCHANGED <<isInitializedRef, sinceStart>>
     ELSE /\ Catch(tasks, t)
          /\ UNCHANGED <<onlineUsers, replacedUsers>>
  /\ UNCHANGED <<mounted, session, realtimeClientRef, chatClientRef, currentRoomRef,
                 connectionPromiseRef, subscriptionsRef, connState, promise, roomStatus,
                 liveSubs, room>>
  /\ UNCHANGED <<msgVars, sendVars, inputVars, typingVars, nameVars, selfVars, dedupVars, authVars, present, presenceQueries>>

\* ------------------------------------------------------- message delivery
\* setMessages((prev) => [...prev, newMessage]) :311
Appended(m, name) == Append(messages, [id |-> m, userName |-> name])

\* the outcomes of `fetch('/api/user/flona-name?...')` :69-71: a name, a
\* success without a name, a non-success status, a thrown error
LookupOutcomes == {"name", "noname", "notok", "error"}
\* (variant: a failed lookup yields the 'Anonymous' placeholder)
getFlonaName_Placeholder(email, outcome) ==
  IF outcome = "name" THEN RegisteredName(email) ELSE [kind |-> "placeholder"]
\* getFlonaName(email) :67-82 after a cache miss: the name it stores and returns
getFlonaName(email, outcome) ==
  IF outcome = "name" THEN RegisteredName(email)
  ELSE generateAnonymousName(CharCodes(email))

\* (variant: the list is searched instead of the dedup set)
IsDuplicate_InList(m) == m \in SeqIds(messages)
\* :293  "prevent duplicate messages"
IsDuplicate(m) == m \in messageIdsRef

\* The transport delivers message m to the message subscription; handler
\* :289-312 up to its await.  getFlonaName (:61-65) answers from the cache
\* without I/O; otherwise the handler is suspended in the lookup (:69).
OnMessage(m) ==
  /\ messageIdsRef' = messageIdsRef \cup {m}
  /\ IF flonaNameCacheRef[Author(m)] # NoName
     THEN /\ messages' = Appended(m, flonaNameCacheRef[Author(m)])
          /\ UNCHANGED lookups
     ELSE /\ lookups[m] < MaxInFlight
          /\ lookups' = [lookups EXCEPT ![m] = @ + 1]
          /\ UNCHANGED messages
  /\ UNCHANGED <<flonaNameCacheRef, persisted>>

\* a message of another client is delivered
Deliver(m) ==
  /\ Quiet
  /\ liveSubs["message"] > 0
  /\ ~IsDuplicate(m)
  /\ OnMessage(m)
  /\ UNCHANGED <<lifeVars, otherVars>>

\* The transport delivers again a message it has delivered before, while the
\* handler of the earlier delivery is suspended in the lookup ("lookup") or
\* after the message was listed ("listed"); handler :289-312 up to its await.
\* Every such case is followed once.
Redeliver(m, during) ==
  /\ Quiet
  /\ liveSubs["message"] > 0
  /\ [id |-> m, during |-> during] \notin redelivered
  /\ IF during = "lookup" THEN lookups[m] > 0 ELSE m \in SeqIds(messages)
  /\ redelivered' = redelivered \cup {[id |-> m, during |-> during]}
  /\ IF IsDuplicate(m) THEN UNCHANGED msgVars ELSE OnMessage(m)
  /\ UNCHANGED <<lifeVars, sendVars, inputVars, typingVars, nameVars, selfVars, presenceVars, authVars>>

\* the lookup of a suspended handler of m settles (:69-82); :303-311
LookupDone(m, outcome) ==
  /\ Quiet
  /\ lookups[m] > 0
  /\ lookups' = [lookups EXCEPT ![m] = @ - 1]
  /\ flonaNameCacheRef' = [flonaNameCacheRef EXCEPT
                             ![Author(m)] = getFlonaName(Author(m), outcome)]
  /\ messages' = Appended(m, getFlonaName(Author(m), outcome))
  /\ UNCHANGED <<messageIdsRef, persisted>>
  /\ UNCHANGED <<lifeVars, otherVars>>

\* a message is persisted in the store (POST /api/messages of any client)
StoreCreate ==
  /\ Quiet
  /\ persisted < MaxMsg
  /\ persisted' = persisted + 1
  /\ UNCHANGED <<messages, messageIdsRef, flonaNameCacheRef, lookups>>
  /\ UNCHANGED <<lifeVars, otherVars>>

\* ------------------------------------------------------------ sendMessage
NumSends == Cardinality({s \in SendIds : sends[s].pc # "idle"})

\* (variant: the publish is issued together with the persistence request)
SendMessage_PublishFirst ==
  /\ Quiet
  /\ room /\ session
  /\ NumSends < MaxSends
  /\ sends' = [sends EXCEPT ![NumSends + 1] =
        [IdleSend EXCEPT !.pc = "persisting", !.published = TRUE]]

\* sendMessage(text) :85-105 up to `await fetch('/api/messages', POST)`;
\* the text is non-empty (the input component sends trimmed non-empty text)
SendMessage ==
  /\ Quiet
  /\ room /\ session
  /\ NumSends < MaxSends
  /\ sends' = [sends EXCEPT ![NumSends + 1] = [IdleSend EXCEPT !.pc = "persisting"]]

\* the POST settles: "ok" (2xx), "notok" (another status) or "error" (fetch
\* throws); :107-119
PersistDone(s, outcome) ==
  /\ Quiet
  /\ sends[s].pc = "persisting"
  /\ IF outcome = "error"
     THEN \* catch :116-119, the publish at :115 is skipped
          sends' = [sends EXCEPT ![s].pc = "done", ![s].persist = "error",
                                 ![s].alerted = TRUE]
     ELSE sends' = [sends EXCEPT ![s].pc = "publishing", ![s].persist = outcome,
                                 ![s].published = TRUE,
                                 ![s].msg = IF outcome = "ok" THEN persisted + 1 ELSE 0]
  /\ IF outcome = "ok"
     THEN persisted < MaxMsg /\ persisted' = persisted + 1
     ELSE UNCHANGED persisted
  /\ UNCHANGED <<messages, messageIdsRef, flonaNameCacheRef, lookups>>
  /\ UNCHANGED <<lifeVars, uiVars>>

\* `await room.messages.send({ text })` (:115) settles.  A message the
\* transport accepted is delivered to the subscribers of the room, this
\* client included (only the messages the store has numbered are followed).
PublishDone(s, ok) ==
  /\ Quiet
  /\ sends[s].pc = "publishing"
  /\ sends' = [sends EXCEPT ![s].pc = "done", ![s].alerted = ~ok,
                            ![s].echo = IF ok /\ sends[s].msg # 0 THEN "inflight"
                                        ELSE "none"]
  /\ UNCHANGED <<lifeVars, msgVars, uiVars>>

\* The transport delivers the published message of send s to the message
\* subscriptions this client has at that moment (none: nothing runs; the
\* transport does not replay it to a later subscription).
EchoDeliver(s) ==
  /\ Quiet
  /\ sends[s].echo = "inflight"
  /\ sends' = [sends EXCEPT ![s].echo = "done"]
  /\ IF liveSubs["message"] > 0 /\ ~IsDuplicate(sends[s].msg)
     THEN OnMessage(sends[s].msg)
     ELSE UNCHANGED msgVars
  /\ UNCHANGED <<lifeVars, uiVars>>

\* ------------------------------------------------------ typing indicators
\* typingEvent.currentlyTyping: a Set, iterated in insertion order
TypingSeqs ==
  {q \in UNION {[1..n -> Accounts] : n \in 0..Cardinality(Accounts)} :
      \A i, j \in DOMAIN q : i # j => q[i] # q[j]}

NotLocal(e) == e # LocalUser
\* (variant: the local user is not removed)
TypingSet_Unfiltered(currentlyTyping) == currentlyTyping
\* :326-330  `typingSet.delete(session.user.email)`
TypingSet(currentlyTyping) == SelectSeq(currentlyTyping, NotLocal)

\* the loop :334-337 from the identifiers `todo` on, with `names` collected so
\* far and the cache `cache`: it runs until a lookup has to wait or to its end
RECURSIVE Resolve(_, _, _, _)
Resolve(todo, names, cache, hadLocal) ==
  IF Len(todo) = 0
  THEN [pc |-> "idle", todo |-> <<>>, names |-> names, hadLocal |-> hadLocal]
  ELSE IF cache[Head(todo)] # NoName
  THEN Resolve(Tail(todo), names \cup {cache[Head(todo)]}, cache, hadLocal)
  ELSE [pc |-> "lookup", todo |-> todo, names |-> names, hadLocal |-> hadLocal]

\* handler h goes on as `next`: suspended in a lookup, or at :339
\* setTypingUsers(new Set(flonaNames))
Proceed(h, next) ==
  IF next.pc = "lookup"
  THEN /\ typingHandlers' = [typingHandlers EXCEPT ![h] = next]
       /\ UNCHANGED typingUsers
  ELSE /\ typingHandlers' = [typingHandlers EXCEPT ![h] = IdleHandler]
       /\ typingUsers' = next.names

FreeHandler == CHOOSE h \in 1..MaxTypingHandlers :
   /\ typingHandlers[h].pc = "idle"
   /\ \A g \in 1..MaxTypingHandlers : typingHandlers[g].pc = "idle" => h <= g

\* the transport delivers a typing-changed event; handler :324-340 up to its
\* first lookup that has to wait
TypingEvent(currentlyTyping) ==
  /\ Quiet
  /\ liveSubs["typing"] > 0
  /\ \E h \in 1..MaxTypingHandlers : typingHandlers[h].pc = "idle"
  /\ Proceed(FreeHandler,
             Resolve(TypingSet(currentlyTyping), {}, flonaNameCacheRef,
                     \E i \in DOMAIN currentlyTyping : currentlyTyping[i] = LocalUser))
  /\ lastTyping' = {currentlyTyping[i] : i \in DOMAIN currentlyTyping} \ {LocalUser}
  /\ UNCHANGED <<lifeVars, msgVars, sendVars, inputVars, nameVars, selfVars, dedupVars, authVars, presenceVars>>

\* the lookup a typing handler waits for settles (:69-82); :335-339
TypingLookupDone(h, outcome) ==
  /\ Quiet
  /\ typingHandlers[h].pc = "lookup"
  /\ LET rec == typingHandlers[h]
         email == Head(rec.todo)
         name == getFlonaName(email, outcome)
         cache == [flonaNameCacheRef EXCEPT ![email] = name]
     IN  /\ flonaNameCacheRef' = cache
         /\ Proceed(h, Resolve(Tail(rec.todo), rec.names \cup {name}, cache, rec.hadLocal))
  /\ UNCHANGED lastTyping
  /\ UNCHANGED <<messages, messageIdsRef, lookups, persisted>>
  /\ UNCHANGED <<lifeVars, sendVars, inputVars, nameVars, selfVars, dedupVars, authVars, presenceVars>>

\* ---------------------------------------------------------------- presence
\* The transport records that account e enters or leaves the room and notifies
\* the presence subscriptions; handler :344-350 with presenceEvent = the change
\* of e, which it does not read: with a room handle it calls presence.get().
PresenceChange(e, enters) ==
  /\ Quiet
  /\ (e \in present) # enters
  /\ present' = IF enters THEN present \cup {e} ELSE present \ {e}
  /\ IF liveSubs["presence"] > 0 /\ currentRoomRef
     THEN /\ presenceQueries < MaxPresenceQueries
          /\ presenceQueries' = presenceQueries + 1
     ELSE UNCHANGED presenceQueries
  /\ UNCHANGED <<onlineUsers, replacedUsers>>
  /\ UNCHANGED <<lifeVars, msgVars, sendVars, inputVars, typingVars, nameVars, selfVars, dedupVars, authVars>>

\* a presence.get() of the handler settles (:346-348): it resolves with the
\* members present at that moment, or rejects (there is no rejection handler)
PresenceQueryDone(ok) ==
  /\ Quiet
  /\ presenceQueries > 0
  /\ presenceQueries' = presenceQueries - 1
  /\ IF ok THEN setOnlineUsers(present) ELSE UNCHANGED <<onlineUsers, replacedUsers>>
  /\ UNCHANGED present
  /\ UNCHANGED <<lifeVars, msgVars, sendVars, inputVars, typingVars, nameVars, selfVars, dedupVars, authVars>>

\* ----------------------------------------------------------------- signIn
\* signIn({ user }) rules.md:1291-1326 with user.email = email, up to the end
\* of the upsert: "denied" is `return false`, "approved" is `return true`,
\* "error" is the call rejecting because the insert violates the unique
\* constraint on flona_name
SignIn(email) ==
  /\ email \notin signInPending
  /\ IF email = NoEmail \/ ~DomainCheck(email)
     THEN /\ signInResult' = [signInResult EXCEPT ![email] = "denied"]
          /\ UNCHANGED <<users, signInPending>>
     ELSE IF users[email].exists
     THEN \* upsert, update branch (name, image); then :1329
          IF users[email].flona_name = NoName
          THEN /\ signInPending' = signInPending \cup {email}
               /\ UNCHANGED <<users, signInResult>>
          ELSE /\ signInResult' = [signInResult EXCEPT ![email] = "approved"]
               /\ UNCHANGED <<users, signInPending>>
     ELSE \* upsert, create branch :1320-1325
          IF NameTaken(generateFlonaName(email), email)
          THEN /\ signInResult' = [signInResult EXCEPT ![email] = "error"]
               /\ UNCHANGED <<users, signInPending>>
          ELSE /\ users' = [users EXCEPT ![email] = UserRow(generateFlonaName(email))]
               /\ signInResult' = [signInResult EXCEPT ![email] = "approved"]
               /\ UNCHANGED signInPending
  /\ UNCHANGED <<lifeVars, msgVars, sendVars, inputVars, typingVars, nameVars, selfVars, dedupVars, presenceVars>>

\* `await prisma.user.update({ data: { flona_name: ... } })` rules.md:1330-1333
\* settles; :1336-1338
SignInNameDone(email) ==
  /\ email \in signInPending
  /\ signInPending' = signInPending \ {email}
  /\ IF NameTaken(generateFlonaName(email), email)
     THEN /\ signInResult' = [signInResult EXCEPT ![email] = "error"]
          /\ UNCHANGED users
     ELSE /\ users' = [users EXCEPT ![email] = UserRow(generateFlonaName(email))]
          /\ signInResult' = [signInResult EXCEPT ![email] = "approved"]
  /\ UNCHANGED <<lifeVars, msgVars, sendVars, inputVars, typingVars, nameVars, selfVars, dedupVars, presenceVars>>

\* a row without flona_name: a user created before the column was added
\* (part_000:7-10 adds it to an existing table)
LegacyUser(email) ==
  /\ email # NoEmail
  /\ ~users[email].exists
  /\ users' = [users EXCEPT ![email] = UserRow(NoName)]
  /\ UNCHANGED <<signInPending, signInResult>>
  /\ UNCHANGED <<lifeVars, msgVars, sendVars, inputVars, typingVars, nameVars, selfVars, dedupVars, presenceVars>>

\* --------------------------------------------------------- the input field
\* onTyping(isTyping) is called (ChatRoom.handleTyping :136-144 forwards it to
\* room.typing when a room handle exists)
OnTyping(isTyping) ==
  /\ Len(typingCalls) < MaxTypingCalls
  /\ typingCalls' = Append(typingCalls, isTyping)

\* clearTimeout(typingTimeoutRef.current) when the ref is set (:34-36, :60-62)
ClearedTimeout == IF typingTimeoutRef = "null" THEN "null" ELSE "dead"
\* (variant: the timer the ref holds is left running)
TimersAfterClear_NoClear == timers
\* the running timers after that clearTimeout
TimersAfterClear == IF typingTimeoutRef = "armed" THEN timers - 1 ELSE timers

\* handleSend() part_003:23-38, with the call of sendMessage (:85-105)
HandleSend ==
  /\ Quiet
  /\ Trim(text) # ""
  /\ IF room /\ session THEN SendMessage ELSE UNCHANGED sends
  /\ text' = ""
  /\ IF isTypingRef
     THEN OnTyping(FALSE) /\ isTypingRef' = FALSE
     ELSE UNCHANGED <<typingCalls, isTypingRef>>
  /\ typingTimeoutRef' = ClearedTimeout
  /\ timers' = TimersAfterClear
  /\ UNCHANGED <<lifeVars, msgVars, typingVars, nameVars, selfVars, dedupVars, authVars, presenceVars>>

\* (variant: typing is signalled on every keystroke on non-empty text)
StartsTyping_EveryKeystroke(newText) == newText # ""
\* part_003:54  `newText.length > 0 && !isTypingRef.current`
StartsTyping(newText) == newText # "" /\ ~isTypingRef

\* (variant: an emptied field does not stop the signal)
StopsTyping_Never(newText) == FALSE
\* part_003:72-74  the field is empty and typing is signalled
StopsTyping(newText) == newText = "" /\ isTypingRef

\* handleChange(e) part_003:47-79 with e.target.value = newText
HandleChange(newText) ==
  /\ Quiet
  /\ newText # text
  /\ text' = newText
  /\ IF StartsTyping(newText)
     THEN OnTyping(TRUE) /\ isTypingRef' = TRUE
     ELSE IF StopsTyping(newText)
     THEN OnTyping(FALSE) /\ isTypingRef' = FALSE
     ELSE UNCHANGED <<typingCalls, isTypingRef>>
  /\ typingTimeoutRef' = IF newText # "" THEN "armed" ELSE ClearedTimeout
  /\ timers' = IF newText # "" THEN TimersAfterClear + 1 ELSE TimersAfterClear
  /\ UNCHANGED <<lifeVars, msgVars, sendVars, typingVars, nameVars, selfVars, dedupVars, authVars, presenceVars>>

\* a 3 s timer fires (part_003:66-71): the one the ref holds, or (stale) a
\* running timer the ref no longer holds
TypingTimeout(stale) ==
  /\ Quiet
  /\ IF stale
     THEN /\ timers > (IF typingTimeoutRef = "armed" THEN 1 ELSE 0)
          /\ UNCHANGED typingTimeoutRef
     ELSE /\ typingTimeoutRef = "armed"
          /\ typingTimeoutRef' = "dead"
  /\ timers' = timers - 1
  /\ IF isTypingRef
     THEN OnTyping(FALSE) /\ isTypingRef' = FALSE
     ELSE UNCHANGED <<typingCalls, isTypingRef>>
  /\ UNCHANGED text
  /\ UNCHANGED <<lifeVars, msgVars, sendVars, typingVars, nameVars, selfVars, dedupVars, authVars, presenceVars>>

\* ---------------------------------------------------------- specifications
\* the steps of setupChat after its first await, and of the transport
LifeStep ==
  \/ Teardown
  \/ \E c \in Clients : ClientConnected(c)
  \/ \E c \in Clients : ClientFailed(c)
  \/ \E c \in Clients : ConnectTimeout(c)
  \/ ResumeAfterConnect
  \/ ThrowAfterConnect
  \/ \E t \in Tasks, ok \in BOOLEAN : RoomGetDone(t, ok)
  \/ \E t \in Tasks, ok \in BOOLEAN : AttachDone(t, ok)
  \/ \E t \in Tasks, ok \in BOOLEAN : HistoryDone(t, ok)
  \/ \E t \in Tasks, ok \in BOOLEAN : EnterDone(t, ok)
  \/ \E t \in Tasks, ok \in BOOLEAN : PresenceGetDone(t, ok)

MsgStep ==
  \/ \E m \in MsgIds : Deliver(m)
  \/ \E m \in MsgIds, outcome \in LookupOutcomes : LookupDone(m, outcome)
  \/ StoreCreate

SendStep ==
  \/ HandleSend
  \/ \E newText \in Texts \ {""} : HandleChange(newText)
  \/ \E s \in SendIds, outcome \in {"ok", "notok", "error"} : PersistDone(s, outcome)
  \/ \E s \in SendIds, ok \in BOOLEAN : PublishDone(s, ok)

\* the session manager with message traffic
Next ==
  \/ Mount(MaxMsgTasks)
  \/ \E sess \in BOOLEAN : SessionChange(sess, MaxMsgTasks)
  \/ LifeStep
  \/ MsgStep

Spec == Init /\ [][Next]_vars

\* the lifecycle alone: no action of MsgStep or SendStep writes a variable of
\* lifeVars, and no action of LifeStep reads one of msgVars or sendVars
NextLife ==
  \/ Mount(MaxTasks)
  \/ \E sess \in BOOLEAN : SessionChange(sess, MaxTasks)
  \/ LifeStep

SpecLife == Init /\ [][NextLife]_vars

\* the session manager with sends
NextSend ==
  \/ Mount(MaxSendTasks)
  \/ \E sess \in BOOLEAN : SessionChange(sess, MaxSendTasks)
  \/ LifeStep
  \/ SendStep

SpecSend == Init /\ [][NextSend]_vars

\* the history load over stores below, at and above the limit of the query
StoreSizes == {0, 1, HistoryLimit, MaxStore}
InitHistory == InitStore(StoreSizes)
NextHistory ==
  \/ Mount(MaxSendTasks)
  \/ \E sess \in BOOLEAN : SessionChange(sess, MaxSendTasks)
  \/ LifeStep

SpecHistory == InitHistory /\ [][NextHistory]_vars

\* the session manager with the deliveries of several messages
NextOrder ==
  \/ Mount(MaxSendTasks)
  \/ \E sess \in BOOLEAN : SessionChange(sess, MaxSendTasks)
  \/ LifeStep
  \/ \E m \in OrderIds : Deliver(m)
  \/ \E m \in OrderIds, outcome \in LookupOutcomes : LookupDone(m, outcome)

SpecOrder == Init /\ [][NextOrder]_vars

\* the session manager with the deliveries of several messages of one account
SameAuthorIds == {m \in OrderIds : Author(m) = LocalUser}
NextLookup ==
  \/ Mount(MaxSendTasks)
  \/ \E sess \in BOOLEAN : SessionChange(sess, MaxSendTasks)
  \/ LifeStep
  \/ \E m \in SameAuthorIds : Deliver(m)
  \/ \E m \in SameAuthorIds, outcome \in LookupOutcomes : LookupDone(m, outcome)

SpecLookup == Init /\ [][NextLookup]_vars

\* the identifiers given to the name generators: every string of at most
\* MaxIdLen of these UTF-16 code units ('@', 'a', the largest unit), the
\* accounts of the model, a string whose hash is the smallest Int32 ("GydZG_")
\* and two strings whose hash wraps several times ("zzzzzzz", six largest units)
Alphabet == {64, 97, 65535}
Identifiers ==
  UNION {[1..n -> Alphabet] : n \in 0..MaxIdLen}
  \cup {CharCodes(e) : e \in Accounts}
  \cup {<<71, 121, 100, 90, 71, 95>>,
        <<122, 122, 122, 122, 122, 122, 122>>,
        <<65535, 65535, 65535, 65535, 65535, 65535>>}

\* the client and the server each generate the name of an identifier
GenerateNames(codes) ==
  /\ nameInput' = codes
  /\ clientName' = generateAnonymousName(codes)
  /\ serverName' = generateFlonaName(codes)
  /\ UNCHANGED <<lifeVars, msgVars, sendVars, inputVars, typingVars, presenceVars, authVars, dedupVars, selfVars>>

NextNames == \E codes \in Identifiers : GenerateNames(codes)

SpecNames == Init /\ [][NextNames]_vars

\* the session manager with typing-changed events
NextTyping ==
  \/ Mount(MaxSendTasks)
  \/ LifeStep
  \/ \E currentlyTyping \in TypingSeqs : TypingEvent(currentlyTyping)
  \/ \E h \in 1..MaxTypingHandlers, outcome \in LookupOutcomes : TypingLookupDone(h, outcome)

SpecTyping == Init /\ [][NextTyping]_vars

\* the session manager with sends and the live echo of what was sent
NextEcho ==
  \/ Mount(MaxSendTasks)
  \/ \E sess \in BOOLEAN : SessionChange(sess, MaxSendTasks)
  \/ LifeStep
  \/ SendStep
  \/ \E s \in SendIds : EchoDeliver(s)
  \/ \E m \in MsgIds, outcome \in LookupOutcomes : LookupDone(m, outcome)

SpecEcho == Init /\ [][NextEcho]_vars

\* the session manager with the input field: keystrokes, sends, timer expiry
NextInput ==
  \/ Mount(MaxSendTasks)
  \/ LifeStep
  \/ HandleSend
  \/ \E newText \in Texts : HandleChange(newText)
  \/ \E stale \in BOOLEAN : TypingTimeout(stale)
  \/ \E s \in SendIds, outcome \in {"ok", "notok", "error"} : PersistDone(s, outcome)
  \/ \E s \in SendIds, ok \in BOOLEAN : PublishDone(s, ok)

SpecInput == Init /\ [][NextInput]_vars

\* one activation that is not torn down, with deliveries and repeated
\* deliveries of the messages of one account
NextDedup ==
  \/ Mount(MaxSendTasks)
  \/ \E c \in Clients : ClientConnected(c)
  \/ \E c \in Clients : ClientFailed(c)
  \/ \E c \in Clients : ConnectTimeout(c)
  \/ ResumeAfterConnect
  \/ ThrowAfterConnect
  \/ \E t \in Tasks, ok \in BOOLEAN : RoomGetDone(t, ok)
  \/ \E t \in Tasks, ok \in BOOLEAN : AttachDone(t, ok)
  \/ \E t \in Tasks, ok \in BOOLEAN : HistoryDone(t, ok)
  \/ \E t \in Tasks, ok \in BOOLEAN : EnterDone(t, ok)
  \/ \E t \in Tasks, ok \in BOOLEAN : PresenceGetDone(t, ok)
  \/ \E m \in SameAuthorIds : Deliver(m)
  \/ \E m \in SameAuthorIds, during \in {"lookup", "listed"} : Redeliver(m, during)
  \/ \E m \in SameAuthorIds, outcome \in LookupOutcomes : LookupDone(m, outcome)

SpecDedup == Init /\ [][NextDedup]_vars

\* the sign-in callback over the User table
NextAuth ==
  \/ \E email \in SignInEmails : SignIn(email)
  \/ \E email \in SignInEmails : SignInNameDone(email)
  \/ \E email \in SignInEmails : LegacyUser(email)

SpecAuth == Init /\ [][NextAuth]_vars

\* the session manager with presence changes
NextPresence ==
  \/ Mount(MaxSendTasks)
  \/ LifeStep
  \/ \E e \in Accounts, enters \in BOOLEAN : PresenceChange(e, enters)
  \/ \E ok \in BOOLEAN : PresenceQueryDone(ok)

SpecPresence == Init /\ [][NextPresence]_vars

\* ------------------------------------------------------------------ claims
Active == room /\ Len(subscriptionsRef) = Len(EventClasses)

\* C1: in every reachable state the visible message list holds no two entries
\* with the same message identity, whatever the interleaving of history loads
\* and live deliveries (stated as claimed)
C1_NoDuplicateIdentity ==
  \A i, j \in 1..Len(messages) : i # j => messages[i].id # messages[j].id
\* an invocation of setupChat that has started and not ended
Pending(t) == tasks[t].pc \notin {"idle", "done"}
PendingActivation == \E t \in Tasks : Pending(t)
NothingCreated ==
  /\ NumClients' = NumClients
  /\ NumWaits' = NumWaits
  /\ NumStarted' = NumStarted

\* C2: while an activation is pending or the instance is Active, with no
\* failure or teardown since that activation started, no step (so no further
\* activate call) creates a transport client, starts a connection wait or
\* starts another activation
C2_ActivationIdempotent ==
  [][(sinceStart = "clean" /\ (PendingActivation \/ Active)) => NothingCreated]_vars

\* C2 witness: the [session] effect has run again (the closure of the pending
\* invocation was cleaned up) and there is still one client and one wait
C2_Witness ==
  /\ mounted /\ sinceStart = "clean"
  /\ tasks[1].pc = "awaitConn" /\ ~tasks[1].isMounted
  /\ NumStarted = 1 /\ NumClients = 1 /\ NumWaits = 1

\* C3: with a valid identity, once the activation has run to its end with no
\* failure and no teardown (the transport connected, the attach succeeded),
\* the instance is Active -- also when the [session] effect ran again while the
\* activation was pending (stated as claimed, as the final result)
C3_ActivationReachesActive ==
  (mounted /\ session /\ sinceStart = "clean" /\ ~PendingActivation) => Active

Open(c) == connState[c] \in {"connecting", "connected"}

\* C4: at most one transport connection is open or being opened at any time
\* (no client of the instance is ever closed) (stated as claimed)
C4_AtMostOneConnection == Cardinality({c \in Clients : Open(c)}) <= 1

\* the step in which invocation t reaches the catch block
FailStep(t) ==
  /\ Pending(t) /\ tasks'[t].pc = "done"
  /\ sinceStart' = "disturbed" /\ mounted' = mounted

\* C5: when the connection wait fails or times out, or the attach fails, the
\* step that ends the activation leaves the initialized flag false and
\* creates no client, wait or activation; and with the flag false the next
\* activate call (a mount, or the identity becoming available) starts one
C5_FailureRevertsAndIsRetryable ==
  [][/\ \A t \in Tasks :
          (FailStep(t) /\ tasks[t].pc \in {"throwConn", "awaitAttach"})
             => (~isInitializedRef' /\ NothingCreated)
     /\ (/\ ~isInitializedRef /\ session'
         /\ \/ ~mounted /\ mounted'
            \/ mounted /\ mounted' /\ ~session)
          => NumStarted' = NumStarted + 1]_vars

\* C5 witness: a second activation runs after the first one failed in the
\* connection wait
C5_Witness ==
  /\ tasks[1].pc = "done" /\ connState[1] = "failed"
  /\ tasks[2].pc = "awaitConn" /\ tasks[2].isMounted
  /\ isInitializedRef

SubsOf(k) == Cardinality({i \in 1..Len(subscriptionsRef) : subscriptionsRef[i] = k})

\* C6: at most one live subscription per event class, all of them in the
\* subscription list, which has 0 or 4 entries
C6_OneSubscriptionPerClass ==
  /\ Len(subscriptionsRef) \in {0, Len(EventClasses)}
  /\ \A k \in ClassSet : liveSubs[k] <= 1 /\ liveSubs[k] = SubsOf(k)

\* C6 witness: two invocations have passed the subscription block (:285-356)
C6_Witness ==
  /\ Len(subscriptionsRef) = Len(EventClasses)
  /\ \E t, u \in Tasks :
        t # u /\ tasks[t].pc = "awaitEnter" /\ tasks[u].pc = "awaitEnter"

\* C7: after surface teardown and until the next activation, no subscription
\* is live, the subscription list is empty, the room handle is null and the
\* room is not attached (stated as claimed)
C7_TornDownStaysDetached ==
  ~mounted =>
    /\ subscriptionsRef = <<>>
    /\ \A k \in ClassSet : liveSubs[k] = 0
    /\ ~currentRoomRef
    /\ roomStatus # "attached"

\* C8: after teardown and until the next activation, the dedup set is empty
\* (stated as claimed)
C8_DedupEmptyAfterTeardown == ~mounted => messageIdsRef = {}

\* C9: teardown leaves the transport clients, the client ref and the chat
\* client unchanged, and the mount that follows it with a valid identity and
\* the client connected starts an activation that creates no client and no
\* connection wait and does not wait for the connection
C9_TeardownKeepsConnection ==
  [][/\ (mounted /\ ~mounted') =>
          UNCHANGED <<realtimeClientRef, chatClientRef, connState, promise,
                      connectionPromiseRef>>
     /\ (/\ ~mounted /\ mounted' /\ session
         /\ realtimeClientRef # NoClient
         /\ connState[realtimeClientRef] = "connected")
          => /\ NumStarted' = NumStarted + 1
             /\ tasks'[NumStarted'].pc \in {"awaitRoomGet", "awaitHistory"}
             /\ NumClients' = NumClients /\ NumWaits' = NumWaits
             /\ UNCHANGED <<realtimeClientRef, connState>>]_vars

\* C9 witness: after a teardown that detached the room, a second activation
\* is past the connection phase with the one client of the first
C9_Witness ==
  /\ roomStatus = "detached" /\ mounted
  /\ tasks[2].pc = "awaitRoomGet" /\ tasks[2].isMounted
  /\ NumClients = 1 /\ connState[1] = "connected" /\ realtimeClientRef = 1

\* C10: the publish of a send is issued only after the persistence request of
\* that send has completed
C10_PublishAfterPersist ==
  \A s \in SendIds : sends[s].published => sends[s].persist \in {"ok", "notok"}

\* C10 witness: a send has persisted and then published
C10_Witness ==
  \E s \in SendIds : sends[s].published /\ sends[s].persist = "ok" /\ sends[s].pc = "done"

\* C11: when the persistence request of a send has failed, with a non-success
\* status or with an error of the request itself, the publish of that send has
\* been issued (stated as claimed)
C11_PublishDespitePersistFailure ==
  \A s \in SendIds : sends[s].persist \in {"notok", "error"} => sends[s].published

\* C12: when the publish of a send has failed, the caller has been notified
\* and the input field still holds text: the field is not cleared by a send
\* that did not succeed (stated as claimed; in this specification the user
\* never empties the field)
C12_InputKeptOnPublishFailure ==
  \A s \in SendIds :
     (sends[s].pc = "done" /\ sends[s].published /\ sends[s].alerted) => text # ""

\* nothing of the activation, of the sends or of the deliveries is still running
Settled ==
  /\ mounted /\ session /\ sinceStart = "clean" /\ Active
  /\ ~PendingActivation
  /\ \A m \in MsgIds : lookups[m] = 0

\* C13: a send issued while the room handle is exposed, whose persistence and
\* publish both succeeded, has its message in the visible list under a name
\* resolved for the sender and its identity in the dedup set once the echo has
\* been delivered and the activation has run to its end (stated as claimed, as
\* the final result)
C13_SentMessageVisible ==
  \A s \in SendIds :
     (/\ sends[s].pc = "done" /\ sends[s].persist = "ok" /\ ~sends[s].alerted
      /\ sends[s].echo = "done" /\ Settled)
       => /\ sends[s].msg \in messageIdsRef
          /\ \E i \in 1..Len(messages) :
                /\ messages[i].id = sends[s].msg
                /\ messages[i].userName \in
                     {getFlonaName(LocalUser, o) : o \in LookupOutcomes}

\* the most recent min(HistoryLimit, total) messages of the store, oldest first
MostRecent ==
  LET n == Min(HistoryLimit, persisted)
  IN  [i \in 1..n |-> [id |-> persisted - n + i,
                       userName |-> HistoryName(Author(persisted - n + i))]]

\* C14: a visible list written by the history load is the most recent
\* min(100, total) messages of the store, oldest first (stated as claimed; in
\* SpecHistory only the history load writes the list and the store is fixed)
C14_HistoryIsMostRecent == messages = <<>> \/ messages = MostRecent

\* C15: while the surface stays set up, no step removes an entry from the
\* visible list: every entry of the list before the step is in the list after
\* it (stated as claimed)
C15_ListOnlyGrows ==
  [][(mounted /\ mounted') =>
        \A i \in 1..Len(messages) :
           \E j \in 1..Len(messages') : messages'[j].id = messages[i].id]_vars

\* C16: the list follows the order of arrival of the live messages: when the
\* delivery event of b is received while a, received earlier, is not yet in
\* the list, the step does not put b in the list ahead of a (stated as
\* claimed; a step of a message handler leaves lifeVars unchanged)
C16_ArrivalOrder ==
  [][\A a, b \in OrderIds :
        (/\ a # b /\ lookups[a] > 0 /\ a \notin SeqIds(messages)
         /\ b \notin messageIdsRef /\ b \in messageIdsRef'
         /\ UNCHANGED lifeVars)
          => b \notin SeqIds(messages')]_vars

\* C17: once an account has an entry in the name cache, no step removes the
\* entry or changes its display name (stated as claimed)
C17_CacheEntriesStable ==
  [][\A e \in Accounts :
        flonaNameCacheRef[e] # NoName => flonaNameCacheRef'[e] = flonaNameCacheRef[e]]_vars

\* the fallback name of an account, and the lookup outcomes that lead to it
Fallback(e) == generateAnonymousName(CharCodes(e))
FailOutcomes == LookupOutcomes \ {"name"}

\* C18: a lookup that fails (error or non-success status) or yields no name
\* does not raise: the handler goes on with the fallback name of the account,
\* which is also what the cache then holds; and every generated name shown for
\* an account is that one name, whichever call produced it
C18_FailedLookupFallsBack ==
  [][messages' # messages =>
       /\ \A m \in AllMsgIds, o \in FailOutcomes :
            LookupDone(m, o) =>
               /\ flonaNameCacheRef'[Author(m)] = Fallback(Author(m))
               /\ messages'[Len(messages')] = [id |-> m, userName |-> Fallback(Author(m))]
       /\ \A i \in 1..Len(messages') :
            messages'[i].userName.kind \in {"generated", "placeholder"}
               => messages'[i].userName = Fallback(Author(messages'[i].id))]_vars

\* C18 witness: two messages of one account are shown under its fallback name,
\* the first after a failed lookup, the second from what that call cached
C18_Witness ==
  /\ Len(messages) = 2
  /\ messages[1].id = 1 /\ messages[2].id = 3
  /\ messages[1].userName = Fallback("alice") /\ messages[2].userName = Fallback("alice")
  /\ flonaNameCacheRef["alice"] = Fallback("alice")

\* the reference result: hash = hash * 31 + charCode wrapped to a signed 32-bit
\* integer, the product taken on the two halves of hash
RECURSIVE ReferenceHash(_)
ReferenceHash(codes) ==
  IF Len(codes) = 0 THEN 0
  ELSE LET h == ReferenceHash(SubSeq(codes, 1, Len(codes) - 1))
       IN  ToInt32(Hi(h) * 31, Lo(h) * 31 + codes[Len(codes)])
\* |x| mod n, for every integer x
AbsMod(x, n) == IF x >= 0 THEN x % n ELSE (n - (x % n)) % n
ReferenceName(codes) ==
  LET h == ReferenceHash(codes)
  IN  [kind |-> "generated", adj |-> AbsMod(h, 10), anim |-> AbsMod(h \div 256, 10)]

\* C19: for every identifier the client's generateAnonymousName and the
\* server's generateFlonaName return the same name, that name is the reference
\* result, and both indexes are inside the word lists, also when the hash is
\* the smallest 32-bit integer
C19_GeneratorsAgree ==
  /\ clientName = serverName
  /\ clientName = ReferenceName(nameInput)
  /\ clientName.adj \in 0..(NumAdjectives - 1)
  /\ clientName.anim \in 0..(NumAnimals - 1)

\* C19 witness: the names of an identifier whose hash is -2^31 were generated
C19_Witness ==
  /\ nameInput = <<71, 121, 100, 90, 71, 95>>
  /\ ReferenceHash(nameInput) = MinInt32
  /\ clientName = GeneratedName(8, 8)

\* the display names an account can be resolved to
NamesOf(e) == {getFlonaName(e, o) : o \in LookupOutcomes}

\* C20: the rendered typing-name set never holds a name of the local user,
\* and no running typing handler has collected one or is about to resolve the
\* local user's identifier
C20_TypingExcludesLocalUser ==
  /\ typingUsers \cap NamesOf(LocalUser) = {}
  /\ \A h \in 1..MaxTypingHandlers :
        /\ typingHandlers[h].names \cap NamesOf(LocalUser) = {}
        /\ \A i \in 1..Len(typingHandlers[h].todo) : typingHandlers[h].todo[i] # LocalUser

\* C20 witness: a name is rendered while a handler whose event held the local
\* user and another account waits for the name of that account
C20_Witness ==
  /\ typingUsers # {}
  /\ \E h \in 1..MaxTypingHandlers :
        /\ typingHandlers[h].pc = "lookup" /\ typingHandlers[h].hadLocal
        /\ typingHandlers[h].todo = <<"bob">>

\* C21: a presence-changed notification delivered while a room handle exists
\* starts one member query and does not itself change the rendered presence
\* set (nothing of the event is applied); a member query that completes
\* leaves the rendered set equal to its result, the members present
C21_PresenceReplacedByQuery ==
  [][/\ \A e \in Accounts, enters \in BOOLEAN :
          (PresenceChange(e, enters) /\ liveSubs["presence"] > 0 /\ currentRoomRef)
             => (presenceQueries' = presenceQueries + 1 /\ onlineUsers' = onlineUsers)
     /\ PresenceQueryDone(TRUE) => onlineUsers' = present
     /\ (\E t \in Tasks : PresenceGetDone(t, TRUE)) => onlineUsers' = present]_vars

\* C21 witness: the last query to complete found the room empty and replaced
\* a non-empty rendered set, and no query is in flight
C21_Witness ==
  /\ replacedUsers # {} /\ onlineUsers = {} /\ present = {}
  /\ presenceQueries = 0 /\ liveSubs["presence"] > 0

\* the expiry of an inactivity timer
TimerExpiry == \E stale \in BOOLEAN : TypingTimeout(stale)

\* C22: while typing is signalled exactly one inactivity timer is running, the
\* one the ref holds; when it expires with no keystroke or send in between,
\* exactly one setTyping(false) is issued and no timer is left that could
\* issue another; every keystroke on non-empty text leaves one running timer
C22_OneStopPerInactivity ==
  [][/\ isTypingRef => (typingTimeoutRef = "armed" /\ timers = 1)
     /\ (TimerExpiry /\ isTypingRef)
          => /\ typingCalls' = Append(typingCalls, FALSE)
             /\ ~isTypingRef' /\ timers' = 0
     /\ \A newText \in Texts \ {""} :
          HandleChange(newText) => (timers' = 1 /\ typingTimeoutRef' = "armed")
     /\ timers' <= 1]_vars

\* C22 witness: the timer has expired after setTyping(true): the field still
\* holds the text, one setTyping(false) was issued and no timer is running
C22_Witness ==
  /\ typingCalls = <<TRUE, FALSE>> /\ text = "a"
  /\ ~isTypingRef /\ typingTimeoutRef = "dead" /\ timers = 0

\* C23: a completed signIn call has approved the account exactly when its
\* email ends with @ALLOWED_DOMAIN (compared case-insensitively): a missing
\* email and another domain are denied, and every allowed email is approved
\* and has a row with a flona name, whatever rows exist (stated as claimed)
C23_SignInApprovesAllowedDomain ==
  \A email \in SignInEmails :
     signInResult[email] # "none" =>
        /\ (email # NoEmail /\ DomainCheck(email)) <=> signInResult[email] = "approved"
        /\ signInResult[email] = "approved" =>
              (users[email].exists /\ users[email].flona_name # NoName)

\* C24: whenever the instance is Active, the attach of the room has completed
\* successfully (stated as claimed)
C24_ActiveRoomAttached == Active => roomStatus = "attached"

\* the entries of the list that carry identity m
EntriesOf(m) == {i \in 1..Len(messages) : messages[i].id = m}

\* C25: during one activation every delivered identity is handled once: it
\* has one list entry or one handler suspended in the name lookup, never
\* both or two; a delivery that passes the membership check puts the identity
\* into the dedup set in the same step; and a repeated delivery of an
\* identity that is in the dedup set changes neither the list, nor the dedup
\* set, nor the suspended handlers
C25_DuplicateDeliveryIgnored ==
  [][/\ \A m \in SameAuthorIds : Cardinality(EntriesOf(m)') + lookups'[m] <= 1
     /\ \A m \in SameAuthorIds : Deliver(m) => m \in messageIdsRef'
     /\ \A m \in SameAuthorIds, during \in {"lookup", "listed"} :
          Redeliver(m, during) =>
             (m \in messageIdsRef /\ UNCHANGED <<messages, messageIdsRef, lookups>>)]_vars

\* C25 witness: message 3 was delivered again while its handler was waiting
\* for the name, and once more after it was listed; the list holds it once
C25_Witness ==
  /\ [id |-> 3, during |-> "lookup"] \in redelivered
  /\ [id |-> 3, during |-> "listed"] \in redelivered
  /\ Cardinality(EntriesOf(3)) = 1 /\ lookups[3] = 0

\* C26: once every typing handler has completed, the rendered typing-name set
\* holds a name of each account of the last delivered event's set (the local
\* user removed) and nothing else (stated as claimed)
C26_LastTypingEventWins ==
  (\A h \in 1..MaxTypingHandlers : typingHandlers[h].pc = "idle") =>
     /\ typingUsers \subseteq UNION {NamesOf(e) : e \in lastTyping}
     /\ \A e \in lastTyping : typingUsers \cap NamesOf(e) # {}

\* C27: presence is never entered with the initial placeholder name: every
\* presence.enter call carries the resolved display name of the local user
\* (stated as claimed)
C27_PresenceEnteredWithResolvedName == enteredName # Anonymous

\* C28: when the history load of a first activation fails, with no failure or
\* teardown since the activation started, the step leaves the message list
\* empty, establishes the four subscriptions and calls presence.enter: the
\* activation goes on and the initialized flag stays set
C28_HistoryFailureNotBlocking ==
  [][(HistoryDone(1, FALSE) /\ NumStarted = 1 /\ sinceStart = "clean")
       => /\ messages' = <<>>
          /\ subscriptionsRef' = EventClasses
          /\ \A k \in ClassSet : liveSubs'[k] = 1
          /\ tasks'[1].pc = "awaitEnter" /\ enteredName' # NoName
          /\ isInitializedRef' /\ sinceStart' = "clean"]_vars

\* C28 witness: the store holds messages, the history load of the first
\* activation failed, and the activation has entered presence and ended with
\* the list empty and the four subscriptions live
C28_Witness ==
  /\ persisted = MaxStore /\ messages = <<>>
  /\ NumStarted = 1 /\ sinceStart = "clean" /\ tasks[1].pc = "done"
  /\ Active /\ enteredName # NoName

\* C29: the onTyping calls of the input component alternate, starting with
\* true: the odd calls are true and the even ones false, and typing is
\* signalled exactly after an odd number of calls
C29_TypingCallsAlternate ==
  /\ \A i \in 1..Len(typingCalls) : typingCalls[i] = (i % 2 = 1)
  /\ isTypingRef = (Len(typingCalls) % 2 = 1)

\* C29 witness: typing was signalled, stopped by a send, and signalled again
\* by the next keystroke
C29_Witness ==
  /\ typingCalls = <<TRUE, FALSE, TRUE>>
  /\ sends[1].pc # "idle" /\ text = "a" /\ typingTimeoutRef = "armed"

\* C30: a keystroke that empties the field, and a send, while typing is
\* signalled issue one setTyping(false) in the same step and leave no timer
\* running; and no timer runs while typing is not signalled, so none can
\* issue another setTyping(false)
C30_ImmediateStopCancelsTimer ==
  [][/\ ((HandleChange("") \/ HandleSend) /\ isTypingRef)
          => /\ typingCalls' = Append(typingCalls, FALSE)
             /\ ~isTypingRef'
             /\ timers' = 0 /\ typingTimeoutRef' = "dead"
     /\ ~isTypingRef' => timers' = 0]_vars

\* C30 witness: after setTyping(true) the field is empty again with no
\* send in flight: one setTyping(false) was issued, the timer the ref holds
\* is cancelled and none runs
C30_Witness ==
  /\ typingCalls = <<TRUE, FALSE>> /\ text = ""
  /\ \A s \in SendIds : sends[s].pc = "idle"
  /\ typingTimeoutRef = "dead" /\ timers = 0
====
